---- MODULE Spec2Model ----
(***************************************************************************)
(* Model of oas2xsd.py: OpenAPIToXSDConverter.generate_xsd and the         *)
(* methods it calls.  Python dicts are objects with identity: a schema     *)
(* node is a cell of `heap`, and the registry (global_types) holds node    *)
(* addresses, so that prop.clear() on a node is seen through every         *)
(* holder of that node.                                                    *)
(***************************************************************************)
EXTENDS Integers, Sequences, FiniteSets, TLC

\* ---- bounds of the explored inputs ----
MaxSchemas == 2   \* declared schemas per document
MaxOps == 1       \* operations under paths per document
MaxDepth == 4     \* call depth at which the recursion of merge/process is cut

VARIABLES
  schemas,      \* openapi_spec['components']['schemas']: ordered name -> node
  paths,        \* openapi_spec['paths'], flattened to its operations
  heap,         \* the dict objects of the in-memory document
  cfg,          \* exclude_request_body_types, exclude_list (and includeNames)
  global_types, \* self.global_types: ordered name -> node
  type_names,   \* self.type_names
  anonymous_type_count,
  exclude_types,\* local of generate_xsd
  root,         \* children of the xs:schema element under construction
  iter,         \* dict iterator of generate_global_xsd_types: [pos, used]
  written,      \* what output_stream received
  pc,           \* position in generate_xsd
  run,          \* 1 = first call of generate_xsd, 2 = second call
  out1,         \* result of the first call: [pc, written]
  raised,       \* the exception that ended generate_xsd, "" if none
  resolved,     \* history: $ref names resolve_ref looked up, with the outcome
  merges        \* history: calls of merge_all_of_schemas with their results

vars == <<schemas, paths, heap, cfg, global_types, type_names,
          anonymous_type_count, exclude_types, root, iter, written, pc, run,
          out1, raised, resolved, merges>>

\* ---------------------------------------------------------------------
\* Schema nodes (Python dicts).  keys = the keys present in the dict.
\* ---------------------------------------------------------------------
EmptyDict ==
  [keys |-> {}, type |-> "", props |-> <<>>, required |-> <<>>, ref |-> "",
   enum |-> <<>>, items |-> 0, allOf |-> <<>>, anyOf |-> <<>>, title |-> ""]

KV(k, v) == [k |-> k, v |-> v]

Scalar(t) == [EmptyDict EXCEPT !.keys = {"type"}, !.type = t]
Enum(t, vals) ==
  [EmptyDict EXCEPT !.keys = IF t = "" THEN {"enum"} ELSE {"type", "enum"},
                    !.type = t, !.enum = vals]
Obj(props, req) ==
  [EmptyDict EXCEPT !.keys = {"type", "properties", "required"},
                    !.type = "object", !.props = props, !.required = req]
PropsOnly(props, req) ==
  [EmptyDict EXCEPT !.keys = {"properties", "required"},
                    !.props = props, !.required = req]
Arr(it) == [EmptyDict EXCEPT !.keys = {"type", "items"}, !.type = "array", !.items = it]
Ref(name) == [EmptyDict EXCEPT !.keys = {"$ref"}, !.ref = name]
AllOfObj(members) ==
  [EmptyDict EXCEPT !.keys = {"type", "allOf"}, !.type = "object", !.allOf = members]
AllOfOnly(members) == [EmptyDict EXCEPT !.keys = {"allOf"}, !.allOf = members]
AnyOfOnly(options) == [EmptyDict EXCEPT !.keys = {"anyOf"}, !.anyOf = options]
Titled(n, t) == [n EXCEPT !.keys = @ \cup {"title"}, !.title = t]

\* The document the schemas are drawn from, as loaded by yaml.safe_load.
Heap0 == <<
  \* 1..3  Pet
  Obj(<<KV("id", 2), KV("tag", 3)>>, <<"id">>),
  Scalar("integer"),
  Enum("string", <<"a", "b">>),
  \* 4..9  Owner
  Obj(<<KV("pet", 5), KV("addr", 6)>>, <<"pet">>),
  Ref("Pet"),
  Obj(<<KV("geo", 7), KV("kind", 9)>>, <<"geo">>),
  Obj(<<KV("lat", 8)>>, <<>>),
  Scalar("number"),
  Enum("string", <<"x", "y">>),
  \* 10..20  List
  Obj(<<KV("rows", 11), KV("tags", 13), KV("kinds", 15), KV("pets", 17),
        KV("nums", 19)>>, <<"rows", "nums">>),
  Arr(12),
  Obj(<<KV("v", 20)>>, <<"v">>),
  Arr(14),
  Enum("string", <<"s", "t">>),
  Arr(16),
  Enum("", <<"u">>),
  Arr(18),
  Ref("Pet"),
  Arr(20),
  Scalar("integer"),
  \* 21..25  Dog
  AllOfObj(<<22, 23>>),
  Ref("Pet"),
  PropsOnly(<<KV("tag", 24), KV("bark", 25)>>, <<"bark">>),
  Scalar("integer"),
  Scalar("boolean"),
  \* 26..28  Cat
  PropsOnly(<<KV("toy", 27)>>, <<>>),
  Titled(Obj(<<KV("name", 28)>>, <<>>), "Toy"),
  Scalar("string"),
  \* 29  Color     30  Size        31  Id
  Enum("string", <<"r", "g">>),
  Enum("", <<"s", "m">>),
  Scalar("integer"),
  \* 32..33  addr
  Obj(<<KV("addr", 33)>>, <<>>),
  Obj(<<>>, <<>>),
  \* 34..42  Bird
  Obj(<<KV("wing", 35), KV("beak", 39), KV("rank", 42)>>, <<"beak">>),
  AllOfOnly(<<36, 37>>),
  Ref("Pet"),
  PropsOnly(<<KV("tag", 38)>>, <<"tag">>),
  Scalar("string"),
  AnyOfOnly(<<40, 41>>),
  Ref("Pet"),
  Scalar("integer"),
  Enum("integer", <<"1", "2">>),
  \* 43..44  Loop
  AllOfObj(<<44>>),
  Ref("Loop"),
  \* 45..47  Hut
  AllOfObj(<<46>>),
  PropsOnly(<<KV("door", 47)>>, <<"door">>),
  Obj(<<>>, <<>>),
  \* 48..52  Pup
  AllOfObj(<<49, 50>>),
  Ref("Dog"),
  PropsOnly(<<KV("name", 51), KV("tag", 52)>>, <<"name">>),
  Scalar("string"),
  Scalar("boolean")
>>

\* The declared schemas a document may contain, in document order.
Catalog == <<
  KV("Pet", 1), KV("Owner", 4), KV("List", 10), KV("Dog", 21), KV("Cat", 26),
  KV("Color", 29), KV("Size", 30), KV("Id", 31), KV("addr", 32),
  KV("Bird", 34), KV("Loop", 43), KV("Hut", 45), KV("Pup", 48)
>>

\* The operations a document may declare under paths: the $ref names of the
\* request-body media types, of the response media types and of the
\* parameters ("" = a schema without $ref).
OpCatalog == <<
  [req |-> <<"Pet">>, resp |-> <<>>, param |-> <<>>],
  [req |-> <<"Owner", "Ghost", "Pet">>, resp |-> <<"Pet", "">>, param |-> <<>>],
  [req |-> <<"Pet", "Color">>, resp |-> <<"Ghost">>, param |-> <<"Color", "">>],
  [req |-> <<"">>, resp |-> <<>>, param |-> <<"Owner">>]
>>

\* exclude_request_body_types, exclude_list of generate_xsd; includeNames is
\* the FilterConfig field the caller may hold but generate_xsd has no
\* parameter for.
Configs ==
  { [flag |-> f, exclude_list |-> e, includeNames |-> {}] :
      f \in BOOLEAN, e \in {{}, {"Pet"}, {"Owner", "Ghost"}} }
  \cup { [flag |-> FALSE, exclude_list |-> e, includeNames |-> {"Pet"}] :
           e \in {{}, {"Pet"}} }

RECURSIVE SubSeqs(_, _, _)
\* the subsequences of s[i..] with at most n elements
SubSeqs(s, i, n) ==
  IF i > Len(s) \/ n = 0 THEN {<<>>}
  ELSE SubSeqs(s, i + 1, n)
       \cup { <<s[i]>> \o t : t \in SubSeqs(s, i + 1, n - 1) }

\* ---------------------------------------------------------------------
\* dict helpers
\* ---------------------------------------------------------------------
Node(h, id) == IF id = 0 THEN EmptyDict ELSE h[id]

Keys(d) == { d[i].k : i \in 1..Len(d) }

DictGet(d, k) ==
  IF k \in Keys(d) THEN d[CHOOSE i \in 1..Len(d) : d[i].k = k].v ELSE 0

\* d[k] = v: a new key is appended, an existing key keeps its position
DictSet(d, k, v) ==
  IF k \in Keys(d)
  THEN [i \in 1..Len(d) |-> IF d[i].k = k THEN KV(k, v) ELSE d[i]]
  ELSE Append(d, KV(k, v))

RECURSIVE DictUpdate(_, _)
\* d.update(e)
DictUpdate(d, e) ==
  IF e = <<>> THEN d ELSE DictUpdate(DictSet(d, e[1].k, e[1].v), Tail(e))

SeqToSet(s) == { s[i] : i \in 1..Len(s) }

\* ---------------------------------------------------------------------
\* The converter's methods.  A method that reads or writes the converter or
\* the document takes and returns the record
\*   st = [heap, gt (global_types), tn (type_names), cnt
\*         (anonymous_type_count), res, mrg (histories), err (the exception
\*         raised, "" = none)].
\* ---------------------------------------------------------------------
RefPath(name) == name   \* "#/components/schemas/<name>", kept as its last segment

YamlTypeToXsdType(yaml_type) ==
  CASE yaml_type = "string" -> "xs:string"
    [] yaml_type = "integer" -> "xs:int"
    [] yaml_type = "boolean" -> "xs:boolean"
    [] yaml_type = "number" -> "xs:decimal"
    [] OTHER -> "xs:string"

\* prop.get('type', 'string')
TypeOrString(n) == IF "type" \in n.keys THEN n.type ELSE "string"

\* resolve_ref: a segment absent from the document yields {} (node 0)
ResolveRef(name) == DictGet(schemas, name)

NoteResolve(st, name) ==
  [st EXCEPT !.res = @ \cup {[name |-> name, found |-> name \in Keys(schemas)]}]

RECURSIVE ProbeTypeName(_, _, _)
ProbeTypeName(tn, base_name, index) ==
  LET type_name == base_name \o "_" \o ToString(index) IN
  IF type_name \in tn THEN ProbeTypeName(tn, base_name, index + 1) ELSE type_name

GetUniqueTypeName(tn, base_name) ==
  IF base_name \in tn THEN ProbeTypeName(tn, base_name, 1) ELSE base_name

RECURSIVE ProbeAnonymous(_, _)
\* the while loop of get_type_name_for_schema: [name, cnt]
ProbeAnonymous(tn, r) ==
  IF r.name \in tn
  THEN ProbeAnonymous(tn, [name |-> "AnonymousType_" \o ToString(r.cnt + 1),
                           cnt |-> r.cnt + 1])
  ELSE r

GetTypeNameForSchema(st, id) ==
  LET n == Node(st.heap, id) IN
  ProbeAnonymous(st.tn,
    IF "title" \in n.keys
    THEN [name |-> n.title, cnt |-> st.cnt]
    ELSE [name |-> "AnonymousType_" \o ToString(st.cnt + 1), cnt |-> st.cnt + 1])

\* global_types[type_name] = prop; type_names.add(type_name); prop.clear();
\* prop['$ref'] = ...   (the registry holds the node that is cleared)
HoistCleared(st, id, type_name) ==
  [st EXCEPT !.gt = DictSet(@, type_name, id),
             !.tn = @ \cup {type_name},
             !.heap[id] = Ref(RefPath(type_name))]

RECURSIVE CollectNestedTypes(_, _)
RECURSIVE CollectNestedProps(_, _, _)

\* the node to hoist for one property of collect_nested_types: the property
\* itself, its items, or 0 when the property is left alone
HoistTarget(h, p) ==
  LET prop == Node(h, p)
      items == Node(h, prop.items)
  IN IF "$ref" \in prop.keys THEN 0
     ELSE IF prop.type = "object" THEN p
     ELSE IF prop.type = "array" /\ ~("$ref" \in items.keys) /\ items.type = "object"
     THEN prop.items
     ELSE 0

\* one iteration of the loop of collect_nested_types
CollectNestedProp(st, prop_name, p) ==
  LET target == HoistTarget(st.heap, p)
      base_name == IF target = p THEN prop_name ELSE prop_name \o "Item"
      type_name == GetUniqueTypeName(st.tn, base_name)
      st1 == HoistCleared(st, target, type_name)
  IN IF target = 0 THEN st
     ELSE CollectNestedTypes(st1, DictGet(st1.gt, type_name))

CollectNestedProps(st, props, i) ==
  IF i > Len(props) THEN st
  ELSE CollectNestedProps(CollectNestedProp(st, props[i].k, props[i].v), props, i + 1)

CollectNestedTypes(st, id) ==
  LET schema == Node(st.heap, id) IN
  IF schema.type = "object" THEN CollectNestedProps(st, schema.props, 1) ELSE st

RECURSIVE CollectEach(_, _, _)
CollectEach(st, sch, i) ==
  IF i > Len(sch) THEN st
  ELSE CollectEach(CollectNestedTypes(st, sch[i].v), sch, i + 1)

\* collect_all_types
CollectAllTypes(st) ==
  CollectEach([st EXCEPT !.gt = schemas, !.tn = Keys(schemas)], schemas, 1)

\* type_name = get_type_name_for_schema(x); x['$ref'] = ...;
\* global_types[type_name] = x; type_names.add(type_name);
\* collect_nested_types(x)      (the node keeps its other keys)
HoistKept(st, id) ==
  LET r == GetTypeNameForSchema(st, id)
      st1 == [st EXCEPT !.cnt = r.cnt,
                        !.heap[id] = [@ EXCEPT !.keys = @ \cup {"$ref"},
                                               !.ref = RefPath(r.name)],
                        !.gt = DictSet(@, r.name, id),
                        !.tn = @ \cup {r.name}]
  IN [st |-> CollectNestedTypes(st1, id), name |-> r.name]

RECURSIVE MergeAllOfSchemas(_, _, _)
RECURSIVE MergeMembers(_, _, _, _)
RECURSIVE ProcessRefOrSchema(_, _, _)
RECURSIVE CollectReferences(_, _, _, _)

\* one iteration of the loop over properties.values() of
\* process_ref_or_schema: [st, refs], refs the names appended
CollectReference(st, p) ==
  LET prop == Node(st.heap, p)
      items == Node(st.heap, prop.items)
      target == IF "$ref" \in prop.keys THEN 0
                ELSE IF prop.type = "object" THEN p
                ELSE IF prop.type = "array" /\ ~("$ref" \in items.keys)
                        /\ items.type = "object"
                THEN prop.items
                ELSE 0
      h == HoistKept(st, target)
  IN IF "$ref" \in prop.keys THEN [st |-> st, refs |-> <<prop.ref>>]
     ELSE IF target # 0 THEN [st |-> h.st, refs |-> <<h.name>>]
     ELSE IF prop.type = "array" /\ "$ref" \in items.keys
     THEN [st |-> st, refs |-> <<items.ref>>]
     ELSE [st |-> st, refs |-> <<>>]

\* the loop over properties.values() of process_ref_or_schema: [st, refs]
CollectReferences(st, props, i, refs) ==
  IF i > Len(props) THEN [st |-> st, refs |-> refs]
  ELSE LET r == CollectReference(st, props[i].v)
       IN CollectReferences(r.st, props, i + 1, refs \o r.refs)

Raised(st, e) == [st |-> [st EXCEPT !.err = e], props |-> <<>>, req |-> {}, refs |-> <<>>]

\* the non-$ref, non-allOf branch of process_ref_or_schema, c the outcome
\* of its loop
PlainSchema(schema, c) ==
  [st |-> c.st, props |-> schema.props, req |-> SeqToSet(schema.required),
   refs |-> c.refs]

\* process_ref_or_schema: [st, props, req, refs].  d is the call depth; the
\* interpreter raises RecursionError once its limit is passed.
ProcessRefOrSchema(st, id, d) ==
  IF d > MaxDepth THEN Raised(st, "RecursionError")
  ELSE IF "$ref" \in Node(st.heap, id).keys
  THEN ProcessRefOrSchema(NoteResolve(st, Node(st.heap, id).ref),
                          ResolveRef(Node(st.heap, id).ref), d + 1)
  ELSE IF "allOf" \in Node(st.heap, id).keys
  THEN MergeAllOfSchemas(st, Node(st.heap, id).allOf, d + 1)
  ELSE PlainSchema(Node(st.heap, id),
                   CollectReferences(st, Node(st.heap, id).props, 1, <<>>))

RECURSIVE DictSetDefault(_, _)
\* for k, v in e.items(): d.setdefault(k, v)
DictSetDefault(d, e) ==
  IF e = <<>> THEN d
  ELSE DictSetDefault(IF e[1].k \in Keys(d) THEN d ELSE Append(d, e[1]), Tail(e))

\* MergeInto with the first member's definition kept on a name collision
MergeIntoFirstWins(acc, r) ==
  [st |-> r.st, props |-> DictSetDefault(acc.props, r.props),
   req |-> acc.req \cup r.req, refs |-> acc.refs \o r.refs]

\* merged_properties.update(props); required_fields.update(reqs);
\* references.extend(refs)
MergeInto(acc, r) ==
  [st |-> r.st, props |-> DictUpdate(acc.props, r.props),
   req |-> acc.req \cup r.req, refs |-> acc.refs \o r.refs]

\* the schema a member of all_of_list is processed as: a $ref member is
\* resolved first
MemberState(st, m) ==
  IF "$ref" \in Node(st.heap, m).keys THEN NoteResolve(st, Node(st.heap, m).ref) ELSE st
MemberSchema(st, m) ==
  IF "$ref" \in Node(st.heap, m).keys THEN ResolveRef(Node(st.heap, m).ref) ELSE m

\* the loop of merge_all_of_schemas over all_of_list; acc.st is the state
MergeMembers(all_of_list, i, acc, d) ==
  IF i > Len(all_of_list) \/ acc.st.err # "" THEN acc
  ELSE MergeMembers(all_of_list, i + 1,
         MergeInto(acc, ProcessRefOrSchema(MemberState(acc.st, all_of_list[i]),
                                           MemberSchema(acc.st, all_of_list[i]), d + 1)),
         d)

\* the return of merge_all_of_schemas (with the call noted in the history)
MergeReturn(all_of_list, r) ==
  IF r.st.err # "" THEN Raised(r.st, r.st.err)
  ELSE [r EXCEPT !.st.mrg = Append(@, [list |-> all_of_list,
                                       props |-> r.props, req |-> r.req])]

\* merge_all_of_schemas: [st, props, req, refs]
MergeAllOfSchemas(st, all_of_list, d) ==
  IF d > MaxDepth THEN Raised(st, "RecursionError")
  ELSE MergeReturn(all_of_list,
         MergeMembers(all_of_list, 1,
                      [st |-> st, props |-> <<>>, req |-> {}, refs |-> <<>>], d))

\* ---------------------------------------------------------------------
\* The output tree: an ElementTree element is [tag, attrs, kids], attrs in
\* the order they were set.
\* ---------------------------------------------------------------------
El(tag, attrs, kids) == [tag |-> tag, attrs |-> attrs, kids |-> kids]

\* create_enum_restriction
CreateEnumRestriction(base_type, enum_values) ==
  El("xs:simpleType", <<>>,
     << El("xs:restriction", <<KV("base", base_type)>>,
           [i \in 1..Len(enum_values) |->
              El("xs:enumeration", <<KV("value", enum_values[i])>>, <<>>)]) >>)

\* create_xsd_element.  None is "" for element_type and ref, <<>> for
\* enum_values, and <<>> for complex_type (else a one-element sequence).
CreateXsdElement(name, element_type, required, is_array, complex_type, enum_values, ref) ==
  LET a0 == <<KV("name", name), KV("minOccurs", IF required THEN "1" ELSE "0")>>
      a1 == IF is_array THEN Append(a0, KV("maxOccurs", "unbounded")) ELSE a0
  IN
  IF ref # "" THEN El("xs:element", Append(a1, KV("ref", ref)), <<>>)
  ELSE IF enum_values # <<>>
  THEN El("xs:element", a1, <<CreateEnumRestriction(element_type, enum_values)>>)
  ELSE IF complex_type # <<>> THEN El("xs:element", a1, complex_type)
  ELSE IF element_type # "" THEN El("xs:element", Append(a1, KV("type", element_type)), <<>>)
  ELSE El("xs:element", Append(a1, KV("type", "xs:string")), <<>>)

\* process_any_of: the element appended to the sequence
ProcessAnyOf(h, prop_name, prop) ==
  LET choice_element ==
        El("xs:choice", <<>>,
           [i \in 1..Len(prop.anyOf) |->
              LET option == Node(h, prop.anyOf[i]) IN
              IF "$ref" \in option.keys
              THEN El("xs:element", <<KV("ref", option.ref)>>, <<>>)
              ELSE El("xs:element",
                      <<KV("type", YamlTypeToXsdType(TypeOrString(option)))>>, <<>>)])
  IN CreateXsdElement(prop_name, "", TRUE, FALSE, <<choice_element>>, <<>>, "")

\* process_simple_type: [st, el]
ProcessSimpleType(st, prop_name, p, required_fields) ==
  LET prop_details == Node(st.heap, p)
      yaml_type == TypeOrString(prop_details)
      is_required == prop_name \in required_fields
      items == Node(st.heap, prop_details.items)
      \* the branches that register a global type during emission
      target == IF yaml_type = "array" /\ ~("$ref" \in items.keys)
                   /\ items.type = "object" THEN prop_details.items
                ELSE IF yaml_type = "object" /\ ~("$ref" \in prop_details.keys) THEN p
                ELSE 0
      h == HoistKept(st, target)
      ref == IF target # 0 THEN h.name
             ELSE IF yaml_type = "array" /\ "$ref" \in items.keys THEN items.ref
             ELSE IF yaml_type = "object" THEN prop_details.ref
             ELSE ""
      item_enum == yaml_type = "array" /\ items.type = "string" /\ "enum" \in items.keys
      prop_enum == yaml_type = "string" /\ "enum" \in prop_details.keys
      element_type ==
        IF ref # "" \/ item_enum THEN ""
        ELSE IF yaml_type = "array" THEN YamlTypeToXsdType(TypeOrString(items))
        ELSE IF prop_enum THEN "xs:string"
        ELSE YamlTypeToXsdType(yaml_type)
  IN [st |-> IF target # 0 THEN h.st ELSE st,
      el |-> CreateXsdElement(prop_name, element_type, is_required,
               yaml_type = "array",
               IF ref = "" /\ item_enum
               THEN <<CreateEnumRestriction("xs:string", items.enum)>> ELSE <<>>,
               IF ref = "" /\ prop_enum THEN prop_details.enum ELSE <<>>,
               ref)]

\* for ref_name in references: sequence_elem.append(Element(ref=ref_name))
ReferenceElements(references) ==
  [i \in 1..Len(references) |-> El("xs:element", <<KV("ref", references[i])>>, <<>>)]

RECURSIVE ProcessProperties(_, _, _, _, _)
RECURSIVE ProcessEach(_, _, _, _, _)

NoElement == El("", <<>>, <<>>)

\* nested_complex_type = self.process_properties(merged_props, merged_reqs,
\* merged_refs), m the return of merge_all_of_schemas
MergedType(m, d) ==
  IF m.st.err # "" THEN [st |-> m.st, el |-> NoElement]
  ELSE ProcessProperties(m.st, m.props, m.req, m.refs, d + 1)

\* create_xsd_element(prop_name, complex_type=nested_complex_type, required=True)
AllOfElement(prop_name, n) ==
  [st |-> n.st, el |-> CreateXsdElement(prop_name, "", TRUE, FALSE, <<n.el>>, <<>>, "")]

\* one iteration of the loop of process_properties: [st, el]
ProcessProperty(st, prop_name, p, required_fields, d) ==
  IF "allOf" \in Node(st.heap, p).keys
  THEN AllOfElement(prop_name,
         MergedType(MergeAllOfSchemas(st, Node(st.heap, p).allOf, d + 1), d))
  ELSE IF "anyOf" \in Node(st.heap, p).keys
  THEN [st |-> st, el |-> ProcessAnyOf(st.heap, prop_name, Node(st.heap, p))]
  ELSE IF "$ref" \in Node(st.heap, p).keys
  THEN [st |-> st,
        el |-> CreateXsdElement(prop_name, "", prop_name \in required_fields, FALSE,
                                <<>>, <<>>, Node(st.heap, p).ref)]
  ELSE ProcessSimpleType(st, prop_name, p, required_fields)

\* sequence_elem.append(...)
AppendKid(acc, r) == [st |-> r.st, kids |-> Append(acc.kids, r.el)]

\* the loop of process_properties over properties.items(); acc = [st, kids]
ProcessEach(properties, i, required_fields, acc, d) ==
  IF i > Len(properties) \/ acc.st.err # "" THEN acc
  ELSE ProcessEach(properties, i + 1, required_fields,
         AppendKid(acc, ProcessProperty(acc.st, properties[i].k, properties[i].v,
                                        required_fields, d)), d)

\* the xs:complexType process_properties returns
ComplexType(r) ==
  [st |-> r.st,
   el |-> El("xs:complexType", <<>>, <<El("xs:sequence", <<>>, r.kids)>>)]

\* process_properties: [st, el]
ProcessProperties(st, properties, required_fields, references, d) ==
  IF d > MaxDepth
  THEN [st |-> [st EXCEPT !.err = "RecursionError"], el |-> NoElement]
  ELSE ComplexType(ProcessEach(properties, 1, required_fields,
                               [st |-> st, kids |-> ReferenceElements(references)], d))

RECURSIVE PropertyRefs(_, _, _)
\* the loop of generate_global_xsd_types collecting references
PropertyRefs(h, properties, i) ==
  IF i > Len(properties) THEN <<>>
  ELSE LET prop == Node(h, properties[i].v) IN
       (IF "$ref" \in prop.keys THEN <<prop.ref>> ELSE <<>>)
       \o PropertyRefs(h, properties, i + 1)

\* properties, required_fields, references of generate_global_xsd_types
GlobalProperties(st, schema_details) ==
  IF "allOf" \in schema_details.keys
  THEN MergeAllOfSchemas(st, schema_details.allOf, 1)
  ELSE [st |-> st, props |-> schema_details.props,
        req |-> SeqToSet(schema_details.required),
        refs |-> PropertyRefs(st.heap, schema_details.props, 1)]

\* complex_type_elem.extend(processed_complex_type)
NamedComplexType(type_name, r) ==
  [st |-> r.st, el |-> El("xs:complexType", <<KV("name", type_name)>>, r.el.kids)]

\* the body of the loop of generate_global_xsd_types for one registry
\* entry: [st, el], el the child appended to root
GlobalXsdType(st, type_name, id) ==
  IF Node(st.heap, id).type = "string" /\ "enum" \in Node(st.heap, id).keys
  THEN [st |-> st,
        el |-> El("xs:simpleType", <<KV("name", type_name)>>,
                  <<CreateEnumRestriction("xs:string", Node(st.heap, id).enum)>>)]
  ELSE IF Node(st.heap, id).type = "object" \/ "properties" \in Node(st.heap, id).keys
  THEN NamedComplexType(type_name,
         MergedType(GlobalProperties(st, Node(st.heap, id)), 0))
  ELSE [st |-> st,
        el |-> El("xs:simpleType",
                  <<KV("name", type_name),
                    KV("base", YamlTypeToXsdType(TypeOrString(Node(st.heap, id))))>>,
                  <<>>)]

RECURSIVE RequestBodyRefs(_, _, _)
\* first loop of find_request_body_only_types
RequestBodyRefs(ops, i, acc) ==
  IF i > Len(ops) THEN acc
  ELSE RequestBodyRefs(ops, i + 1,
         acc \cup { n \in SeqToSet(ops[i].req) : n # "" /\ n \in Keys(schemas) })

RECURSIVE UsedRefsNoParameters(_, _, _)
\* UsedRefs without the loop over parameters
UsedRefsNoParameters(ops, i, acc) ==
  IF i > Len(ops) THEN acc
  ELSE UsedRefsNoParameters(ops, i + 1,
         acc \cup { n \in SeqToSet(ops[i].resp) : n # "" })

RECURSIVE UsedRefs(_, _, _)
\* second loop of find_request_body_only_types
UsedRefs(ops, i, acc) ==
  IF i > Len(ops) THEN acc
  ELSE UsedRefs(ops, i + 1,
         acc \cup { n \in SeqToSet(ops[i].resp) : n # "" }
             \cup { n \in SeqToSet(ops[i].param) : n # "" })

FindRequestBodyOnlyTypes == RequestBodyRefs(paths, 1, {}) \ UsedRefs(paths, 1, {})

\* for type_name in self.global_types.keys(): if not excluded: element
MainElements(gt, excl) ==
  LET F[i \in 0..Len(gt)] ==
        IF i = 0 THEN <<>>
        ELSE IF gt[i].k \in excl THEN F[i - 1]
        ELSE Append(F[i - 1],
                    El("xs:element", <<KV("name", gt[i].k), KV("type", gt[i].k)>>, <<>>))
  IN F[Len(gt)]

\* ---------------------------------------------------------------------
\* generate_xsd as a sequence of steps
\* ---------------------------------------------------------------------
St == [heap |-> heap, gt |-> global_types, tn |-> type_names,
       cnt |-> anonymous_type_count, res |-> resolved, mrg |-> merges, err |-> ""]

Install(st) ==
  /\ heap' = st.heap
  /\ global_types' = st.gt
  /\ type_names' = st.tn
  /\ anonymous_type_count' = st.cnt
  /\ resolved' = st.res
  /\ merges' = st.mrg

Init ==
  /\ schemas \in SubSeqs(Catalog, 1, MaxSchemas)
  /\ paths \in SubSeqs(OpCatalog, 1, MaxOps)
  /\ cfg \in Configs
  /\ heap = Heap0
  /\ global_types = <<>>
  /\ type_names = {}
  /\ anonymous_type_count = 0
  /\ exclude_types = {}
  /\ root = <<>>
  /\ iter = [pos |-> 0, used |-> 0]
  /\ written = <<>>
  /\ pc = "start"
  /\ run = 1
  /\ out1 = [pc |-> "", written |-> <<>>]
  /\ raised = ""
  /\ resolved = {}
  /\ merges = <<>>

\* generate_xsd up to the creation of root
ComputeExclude ==
  /\ pc = "start"
  /\ exclude_types' = (IF cfg.flag THEN FindRequestBodyOnlyTypes ELSE {})
                        \cup cfg.exclude_list
  /\ root' = <<>>
  /\ pc' = "collect"
  /\ UNCHANGED <<schemas, paths, heap, cfg, global_types, type_names,
                 anonymous_type_count, iter, written, run, out1, raised,
                 resolved, merges>>

\* the registry after collect_all_types, and the iterator created over it
Collected(st) ==
  /\ Install(st)
  /\ iter' = [pos |-> 1, used |-> Len(st.gt)]

\* generate_global_xsd_types: collect_all_types(), then the iterator over
\* self.global_types.items() is created
Collect ==
  /\ pc = "collect"
  /\ Collected(CollectAllTypes(St))
  /\ pc' = "types"
  /\ UNCHANGED <<schemas, paths, cfg, exclude_types, root, written, run, out1,
                 raised>>

\* the dict iterator finds the dict's size changed: RuntimeError
IterChanged ==
  /\ pc = "types"
  /\ Len(global_types) # iter.used
  /\ pc' = "error"
  /\ raised' = "RuntimeError"
  /\ UNCHANGED <<schemas, paths, heap, cfg, global_types, type_names,
                 anonymous_type_count, exclude_types, root, iter, written, run,
                 out1, resolved, merges>>

\* the effect of one loop body of generate_global_xsd_types, r its outcome
LoopBody(r) ==
  /\ Install(r.st)
  /\ root' = IF r.st.err = "" THEN Append(root, r.el) ELSE root
  /\ pc' = IF r.st.err = "" THEN "types" ELSE "error"
  /\ raised' = r.st.err

\* one iteration of the loop of generate_global_xsd_types
EmitType ==
  /\ pc = "types"
  /\ Len(global_types) = iter.used
  /\ iter.pos <= Len(global_types)
  /\ IF global_types[iter.pos].k \in exclude_types
     THEN /\ UNCHANGED <<heap, global_types, type_names, anonymous_type_count,
                         resolved, merges, root, raised>>
          /\ pc' = "types"
     ELSE LoopBody(GlobalXsdType(St, global_types[iter.pos].k, global_types[iter.pos].v))
  /\ iter' = [iter EXCEPT !.pos = @ + 1]
  /\ UNCHANGED <<schemas, paths, cfg, exclude_types, written, run, out1>>

\* the iterator is exhausted: the loop ends
TypesDone ==
  /\ pc = "types"
  /\ Len(global_types) = iter.used
  /\ iter.pos > Len(global_types)
  /\ pc' = "elements"
  /\ UNCHANGED <<schemas, paths, heap, cfg, global_types, type_names,
                 anonymous_type_count, exclude_types, root, iter, written, run,
                 out1, raised, resolved, merges>>

\* the loop of generate_xsd over self.global_types.keys()
EmitElements ==
  /\ pc = "elements"
  /\ root' = root \o MainElements(global_types, exclude_types)
  /\ pc' = "write"
  /\ UNCHANGED <<schemas, paths, heap, cfg, global_types, type_names,
                 anonymous_type_count, exclude_types, iter, written, run, out1,
                 raised, resolved, merges>>

\* output_stream.write(...); tree.write(output_stream, ...)
Write ==
  /\ pc = "write"
  /\ written' = <<El("xs:schema",
                     <<KV("xmlns:xs", "http://www.w3.org/2001/XMLSchema"),
                       KV("elementFormDefault", "qualified")>>, root)>>
  /\ pc' = "done"
  /\ UNCHANGED <<schemas, paths, heap, cfg, global_types, type_names,
                 anonymous_type_count, exclude_types, root, iter, run, out1,
                 raised, resolved, merges>>

\* a second conversion of the same in-memory document with the same
\* arguments, by the same converter or by a new one (__init__)
Again ==
  /\ pc \in {"done", "error"}
  /\ run = 1
  /\ run' = 2
  /\ out1' = [pc |-> pc, written |-> written]
  /\ written' = <<>>
  /\ pc' = "start"
  /\ raised' = ""
  /\ resolved' = {}
  /\ merges' = <<>>
  /\ \/ UNCHANGED <<global_types, type_names, anonymous_type_count>>
     \/ /\ global_types' = <<>>
        /\ type_names' = {}
        /\ anonymous_type_count' = 0
  /\ UNCHANGED <<schemas, paths, heap, cfg, exclude_types, root, iter>>

Next ==
  \/ ComputeExclude
  \/ Collect
  \/ IterChanged
  \/ EmitType
  \/ TypesDone
  \/ EmitElements
  \/ Write
  \/ Again

Spec == Init /\ [][Next]_vars

\* ---------------------------------------------------------------------
\* Reading the document and the output
\* ---------------------------------------------------------------------
Declared == Keys(schemas)

Attr(e, k) ==
  IF \E i \in 1..Len(e.attrs) : e.attrs[i].k = k
  THEN e.attrs[CHOOSE i \in 1..Len(e.attrs) : e.attrs[i].k = k].v
  ELSE ""

IsGlobalType(e) == e.tag \in {"xs:simpleType", "xs:complexType"}
IsTopElement(e) == e.tag = "xs:element"

\* the children of xs:schema in what was written
OutKids == IF written = <<>> THEN <<>> ELSE written[1].kids
OutTypes == SelectSeq(OutKids, IsGlobalType)
OutElements == SelectSeq(OutKids, IsTopElement)
OutTypeNames == { Attr(OutTypes[i], "name") : i \in 1..Len(OutTypes) }
OutElementNames == { Attr(OutElements[i], "name") : i \in 1..Len(OutElements) }
OutType(name) ==
  OutTypes[CHOOSE i \in 1..Len(OutTypes) : Attr(OutTypes[i], "name") = name]

RECURSIVE Enumerations(_)
RECURSIVE EnumerationsOf(_, _)
\* the values of the xs:enumeration entries below e, in document order
Enumerations(e) ==
  IF e.tag = "xs:enumeration" THEN <<Attr(e, "value")>> ELSE EnumerationsOf(e.kids, 1)
EnumerationsOf(kids, i) ==
  IF i > Len(kids) THEN <<>> ELSE Enumerations(kids[i]) \o EnumerationsOf(kids, i + 1)

\* the elements of the xs:sequence of a complex type
SequenceOf(ct) ==
  IF Len(ct.kids) = 1 /\ ct.kids[1].tag = "xs:sequence" THEN ct.kids[1].kids ELSE <<>>

RECURSIVE Below(_, _)
\* the nodes of the loaded document below node id (id included), following
\* properties, items, allOf and anyOf; n bounds the descent
Below(id, n) ==
  IF id = 0 \/ n = 0 THEN {}
  ELSE LET d == Heap0[id]
           kids == { d.props[i].v : i \in 1..Len(d.props) } \cup {d.items}
                   \cup SeqToSet(d.allOf) \cup SeqToSet(d.anyOf)
       IN {id} \cup UNION { Below(k, n - 1) : k \in kids }

DocNodes == UNION { Below(schemas[i].v, Len(Heap0)) : i \in 1..Len(schemas) }

\* the inline objects of the loaded document: property values, and items of
\* array-typed property values, that are objects without $ref
InlineObjects ==
  LET propvals == UNION { { Heap0[n].props[i].v : i \in 1..Len(Heap0[n].props) } :
                          n \in DocNodes }
      itemvals == { Heap0[p].items : p \in { q \in propvals : Heap0[q].type = "array" } }
  IN { c \in (propvals \cup itemvals) \ {0} :
         Heap0[c].type = "object" /\ ~("$ref" \in Heap0[c].keys) }

Extracted == run = 1 /\ pc = "types" /\ iter.pos = 1

\* ---------------------------------------------------------------------
\* C1  merge_all_of_schemas on [A, B]: a property both declare is bound to
\* B's definition, and the merged required set is the union of A's and B's.
\* A member's own (properties, required) is read from the document when the
\* member (after its $ref) is a plain schema, and from the nested call's
\* return when it is itself an allOf.
\* ---------------------------------------------------------------------
MemberTarget(m) ==
  IF "$ref" \in Heap0[m].keys THEN DictGet(schemas, Heap0[m].ref) ELSE m

IsPlain(id) == id = 0 \/ ~("$ref" \in Heap0[id].keys \/ "allOf" \in Heap0[id].keys)
IsAllOf(id) == id # 0 /\ ~("$ref" \in Heap0[id].keys) /\ "allOf" \in Heap0[id].keys

Settled(id) ==
  \/ IsPlain(id)
  \/ IsAllOf(id) /\ \E j \in 1..Len(merges) : merges[j].list = Heap0[id].allOf

MemberProps(id) ==
  IF IsPlain(id) THEN Node(Heap0, id).props
  ELSE merges[CHOOSE j \in 1..Len(merges) : merges[j].list = Heap0[id].allOf].props

MemberRequired(id) ==
  IF IsPlain(id) THEN SeqToSet(Node(Heap0, id).required)
  ELSE merges[CHOOSE j \in 1..Len(merges) : merges[j].list = Heap0[id].allOf].req

PairMerges ==
  { i \in 1..Len(merges) :
      /\ Len(merges[i].list) = 2
      /\ Settled(MemberTarget(merges[i].list[1]))
      /\ Settled(MemberTarget(merges[i].list[2])) }

Shared(i) ==
  Keys(MemberProps(MemberTarget(merges[i].list[1])))
    \cap Keys(MemberProps(MemberTarget(merges[i].list[2])))

C1_MergeLastWriterWins ==
  \A i \in PairMerges :
    LET A == MemberTarget(merges[i].list[1])
        B == MemberTarget(merges[i].list[2])
    IN /\ \A p \in Shared(i) :
            DictGet(merges[i].props, p) = DictGet(MemberProps(B), p)
       /\ merges[i].req = MemberRequired(A) \cup MemberRequired(B)

C1_Witness ==
  /\ pc = "done"
  /\ \E i \in PairMerges :
       /\ Shared(i) # {}
       /\ MemberRequired(MemberTarget(merges[i].list[1])) # {}
       /\ MemberRequired(MemberTarget(merges[i].list[2])) # {}

\* ---------------------------------------------------------------------
\* C2  After collect_all_types every inline object of the document is, at
\* its original position, a Reference to a registry name, and distinct
\* inline objects have distinct registry names.
\* ---------------------------------------------------------------------
C2_InlineObjectsBecomeReferences ==
  Extracted =>
    /\ \A n \in DocNodes : heap[n].props = Heap0[n].props /\ heap[n].items = Heap0[n].items
    /\ \A c \in InlineObjects :
         /\ heap[c].keys = {"$ref"}
         /\ heap[c].ref \in Keys(global_types)
    /\ \A c1, c2 \in InlineObjects : c1 # c2 => heap[c1].ref # heap[c2].ref

\* ---------------------------------------------------------------------
\* C3  With exclude_request_body_types set, the names excluded by usage are
\* exactly A \ B: A the declared names a request body refers to, B the
\* names a response or a parameter refers to.  A schema in both is not
\* excluded by usage, and is emitted unless exclude_list names it.
\* ---------------------------------------------------------------------
RequestBodyNames ==
  { n \in Declared : \E i \in 1..Len(paths) : n \in SeqToSet(paths[i].req) }

ResponseOrParameterNames ==
  { n \in UNION { SeqToSet(paths[i].resp) \cup SeqToSet(paths[i].param) :
                  i \in 1..Len(paths) } : n # "" }

C3_UsageExclusion ==
  (cfg.flag /\ pc # "start") =>
    /\ exclude_types =
         (RequestBodyNames \ ResponseOrParameterNames) \cup cfg.exclude_list
    /\ \A X \in RequestBodyNames \cap ResponseOrParameterNames :
         X \notin cfg.exclude_list =>
           /\ X \notin exclude_types
           /\ pc = "done" => X \in OutTypeNames /\ X \in OutElementNames

C3_Witness ==
  /\ cfg.flag
  /\ pc = "done"
  /\ RequestBodyNames \ ResponseOrParameterNames # {}
  /\ \E X \in RequestBodyNames \cap ResponseOrParameterNames :
       X \notin cfg.exclude_list /\ X \in OutTypeNames

\* ---------------------------------------------------------------------
\* C4  A non-empty includeNames replaces the exclusion logic: exactly the
\* declared names it lists are emitted as global types and as top-level
\* elements.
\* ---------------------------------------------------------------------
C4_IncludeOverridesExclude ==
  (pc = "done" /\ cfg.includeNames # {}) =>
    /\ OutTypeNames = cfg.includeNames \cap Declared
    /\ OutElementNames = cfg.includeNames \cap Declared

\* ---------------------------------------------------------------------
\* C5  A second generate_xsd on the same document and arguments yields the
\* output of the first, by the same converter or by a new one.
\* ---------------------------------------------------------------------
C5_SecondRunSameOutput ==
  (run = 2 /\ out1.pc = "done" /\ pc \in {"done", "error"}) =>
    (pc = "done" /\ written = out1.written)

\* ---------------------------------------------------------------------
\* C6  The complex type of a non-excluded object-typed registry entry is a
\* sequence of exactly one element per property, in declared order, with
\* minOccurs 1 iff the property is required and maxOccurs unbounded iff the
\* property is array-typed.
\* ---------------------------------------------------------------------
OneElementPerProperty(name, id) ==
  LET ct == OutType(name)
      seq == SequenceOf(ct)
      props == heap[id].props
  IN /\ ct.tag = "xs:complexType"
     /\ Len(seq) = Len(props)
     /\ \A j \in 1..Len(props) :
          /\ Attr(seq[j], "name") = props[j].k
          /\ Attr(seq[j], "minOccurs") =
               (IF props[j].k \in SeqToSet(heap[id].required) THEN "1" ELSE "0")
          /\ (Attr(seq[j], "maxOccurs") = "unbounded")
               <=> (Node(heap, props[j].v).type = "array")

C6_SequenceOfProperties ==
  pc = "done" =>
    \A i \in 1..Len(global_types) :
      LET name == global_types[i].k
          id == global_types[i].v
      IN (name \notin exclude_types /\ heap[id].type = "object"
            /\ ~("allOf" \in heap[id].keys))
         => (name \in OutTypeNames /\ OneElementPerProperty(name, id))

\* ---------------------------------------------------------------------
\* C7  Every schema with an enum (declared schema, property, array items)
\* is rendered with one enumeration entry per listed value, in order.
\* ---------------------------------------------------------------------
PropertyEnum(p) ==
  IF "enum" \in Heap0[p].keys THEN Heap0[p].enum
  ELSE IF Heap0[p].type = "array" /\ "enum" \in Node(Heap0, Heap0[p].items).keys
  THEN Node(Heap0, Heap0[p].items).enum
  ELSE <<>>

C7_EnumValuesPreserved ==
  pc = "done" =>
    \A i \in 1..Len(schemas) :
      LET name == schemas[i].k
          id == schemas[i].v
          props == Heap0[id].props
      IN name \notin exclude_types =>
           /\ "enum" \in Heap0[id].keys =>
                (name \in OutTypeNames /\ Enumerations(OutType(name)) = Heap0[id].enum)
           /\ (Heap0[id].type = "object" /\ ~("allOf" \in Heap0[id].keys)) =>
                \A j \in 1..Len(props) :
                  PropertyEnum(props[j].v) # <<>> =>
                    \E k \in 1..Len(SequenceOf(OutType(name))) :
                      /\ Attr(SequenceOf(OutType(name))[k], "name") = props[j].k
                      /\ Enumerations(SequenceOf(OutType(name))[k])
                           = PropertyEnum(props[j].v)

\* ---------------------------------------------------------------------
\* C8  Resolving a $ref whose path is absent from the document aborts the
\* conversion: an error state, and nothing written.
\* ---------------------------------------------------------------------
C8_BrokenReferenceAborts ==
  (\E r \in resolved : ~r.found) => (pc = "error" /\ written = <<>>)

\* ---------------------------------------------------------------------
\* C9  Exactly one top-level element per declared, non-excluded schema name
\* and none for any other name; the elements follow the global types, and
\* each is typed by a global type of the same output.
\* ---------------------------------------------------------------------
C9_TopLevelElements ==
  pc = "done" =>
    /\ OutElementNames = Declared \ exclude_types
    /\ Len(OutElements) = Cardinality(OutElementNames)
    /\ OutKids = OutTypes \o OutElements
    /\ \A i \in 1..Len(OutElements) : Attr(OutElements[i], "type") \in OutTypeNames

\* ---------------------------------------------------------------------
\* C10  The registry entry of a hoisted inline object holds the object's
\* original type, properties and required list; it is not a bare reference
\* to its own name.
\* ---------------------------------------------------------------------
C10_HoistedEntryKeepsStructure ==
  (run = 1 /\ pc \notin {"start", "collect"}) =>
    \A i \in 1..Len(global_types) :
      LET name == global_types[i].k
          id == global_types[i].v
      IN name \notin Declared =>
           /\ heap[id] # Ref(RefPath(name))
           /\ heap[id].type = Heap0[id].type
           /\ heap[id].props = Heap0[id].props
           /\ heap[id].required = Heap0[id].required

\* ---------------------------------------------------------------------
\* Cycles of the $ref / allOf graph
\* ---------------------------------------------------------------------
RECURSIVE RefNames(_, _)
\* the schema names met from node id along the edges the recursion of
\* process_ref_or_schema / merge_all_of_schemas follows: a $ref to the
\* schema it names, an allOf to each of its members; n bounds the descent
RefNames(id, n) ==
  IF id = 0 \/ n = 0 THEN {}
  ELSE IF "$ref" \in heap[id].keys
  THEN {heap[id].ref} \cup RefNames(ResolveRef(heap[id].ref), n - 1)
  ELSE IF "allOf" \in heap[id].keys
  THEN UNION { RefNames(heap[id].allOf[i], n - 1) : i \in 1..Len(heap[id].allOf) }
  ELSE {}

\* the declared schemas that lie on a cycle of that graph and whose allOf
\* the emission walks (rendered as a complex type, not excluded)
WalkedCycles ==
  { i \in 1..Len(schemas) :
      /\ schemas[i].k \notin exclude_types
      /\ heap[schemas[i].v].type = "object" \/ "properties" \in heap[schemas[i].v].keys
      /\ "allOf" \in heap[schemas[i].v].keys
      /\ schemas[i].k \in RefNames(schemas[i].v, Len(heap)) }

\* ---------------------------------------------------------------------
\* C11  The conversion of a document whose $ref / allOf graph has a cycle
\* terminates by detecting the revisit: the run never ends with the
\* interpreter's RecursionError, and a run that walked a cycle has ended
\* with CyclicSchemaError (a run ended earlier by the changed-dictionary
\* RuntimeError set aside).
\* ---------------------------------------------------------------------
C11_CycleEndsWithCyclicSchemaError ==
  /\ raised # "RecursionError"
  /\ (WalkedCycles # {} /\ pc \in {"done", "error"} /\ raised # "RuntimeError")
       => raised = "CyclicSchemaError"

\* ---------------------------------------------------------------------
\* C12  While generate_global_xsd_types iterates the registry and renders
\* the types, no registry entry is added, removed or replaced: global_types
\* and type_names are left as collect_all_types built them.
\* ---------------------------------------------------------------------
C12_RegistryReadOnlyDuringEmission ==
  [][pc = "types" => UNCHANGED <<global_types, type_names>>]_vars

====
